---------------------------- MODULE Spec2Model ----------------------------
(***************************************************************************)
(* A model of Helper (src/Helper.py), the adapter of the WRC results API.  *)
(*                                                                         *)
(* Python values are modelled as follows.                                  *)
(*   - a dict with string keys is a TLA+ record; a key the dict lacks is a *)
(*     field the record lacks (HasKey);                                    *)
(*   - a list is a sequence;                                               *)
(*   - None is the value None, distinct from every number the inputs use   *)
(*     (identifiers, durations and positions are naturals);                *)
(*   - a str is the sequence of its characters (ASCII), so that lower(),   *)
(*     the substring test `in` and replace() are computed character by     *)
(*     character, not assumed;                                             *)
(*   - the float d / 1000 is the exact rational [num, den] in lowest terms *)
(*     and the int 0 is the rational 0/1 (Python: 0 == 0.0);               *)
(*   - a dict keyed by stage ids (a pivot row besides its 'entryId') is a  *)
(*     function on those ids, kept in the row's field cols;                *)
(*   - a call either returns, Ok(v), or raises, Raise(e).                  *)
(***************************************************************************)
EXTENDS Integers, Sequences, FiniteSets, TLC

VARIABLES
    multiStageTimes,    \* the record list handed to the wide pivots
    season,             \* the event list handed to getEventIdFromName
    stages,             \* the stage list handed to getStageId / getStageInfo
    entries,            \* the entry list handed to getEntryById / getCarData
    itinerary,          \* the itinerary (list of legs); its stage and control
                        \* dicts are mutated in place by getStages / getControls
    itinerary0,         \* the itinerary as it was fetched (history, never written)
    splitTimes,         \* the split-times payload; its split dicts are mutated
                        \* in place by getDriverSplits
    splitTimes0,        \* the payload as it was fetched (history, never written)
    call,               \* the last call: its name and scalar arguments
    ret,                \* what the last call returned or raised
    pc,                 \* position of the running multi-stage fetch
    stageList,          \* its stageList argument
    requests,           \* the GETs it has issued, in order, each with its outcome
    resultList,         \* the per-stage lists its list comprehension has built
    final               \* the list its loop is appending to

vars == <<multiStageTimes, season, stages, entries, itinerary, itinerary0,
          splitTimes, splitTimes0, call, ret, pc, stageList, requests, resultList, final>>

-----------------------------------------------------------------------------
(* Python values *)

None == -1

Ok(v) == [exc |-> "none", val |-> v]
Raise(e) == [exc |-> e]
IsOk(r) == r.exc = "none"

NoCall == [op |-> "none"]
NoRet == [exc |-> "nocall"]

HasKey(d, k) == k \in DOMAIN d

\* bool(v) for v None or a number
Truthy(v) == v # None /\ v # 0

\* x in list
InList(x, list) == \E i \in 1..Len(list) : list[i] = x

RECURSIVE GCD(_, _)
GCD(a, b) == IF b = 0 THEN a ELSE GCD(b, a % b)

\* the int n as a number
IntVal(n) == [num |-> n, den |-> 1]

\* d / 1000 for a natural d
Div1000(d) == LET g == GCD(d, 1000) IN [num |-> d \div g, den |-> 1000 \div g]

\* dict[k] = v
SetItem(d, k, v) == [x \in (DOMAIN d) \cup {k} |-> IF x = k THEN v ELSE d[x]]

\* dict.pop(k), for a key the dict has
DelKey(d, k) == [x \in (DOMAIN d) \ {k} |-> d[x]]

EmptyDict == [x \in {} |-> 0]

-----------------------------------------------------------------------------
(* Wide pivots *)

\* a first loop that forgets the test `not in entries`
RECURSIVE FirstSeenEntries_NoDedup(_, _, _)
FirstSeenEntries_NoDedup(recs, i, seen) ==
    IF i > Len(recs) THEN Ok(seen)
    ELSE IF ~HasKey(recs[i], "entryId") THEN Raise("KeyError")
    ELSE FirstSeenEntries_NoDedup(recs, i + 1, Append(seen, recs[i].entryId))

\* the first loop of the three pivots: entry ids in order of first occurrence
RECURSIVE FirstSeenEntries(_, _, _)
FirstSeenEntries(recs, i, seen) ==
    IF i > Len(recs) THEN Ok(seen)
    ELSE IF ~HasKey(recs[i], "entryId") THEN Raise("KeyError")
    ELSE FirstSeenEntries(recs, i + 1,
            IF InList(recs[i].entryId, seen) THEN seen
            ELSE Append(seen, recs[i].entryId))

\* a cell that stores the milliseconds, forgetting the division
TimesWideCell_NoDivision(stage) ==
    IF ~HasKey(stage, "elapsedDurationMs") THEN Raise("KeyError")
    ELSE IF Truthy(stage.elapsedDurationMs)
         THEN Ok(IntVal(stage.elapsedDurationMs))
         ELSE Ok(IntVal(0))

\* getMultiStageTimesWide, lines 600-603: the value stored for one record
TimesWideCell(stage) ==
    IF ~HasKey(stage, "elapsedDurationMs") THEN Raise("KeyError")
    ELSE IF Truthy(stage.elapsedDurationMs)
         THEN Ok(Div1000(stage.elapsedDurationMs))
         ELSE Ok(IntVal(0))

\* getMultiStagePositionsWide, line 629
PositionsWideCell(stage) ==
    IF ~HasKey(stage, "position") THEN Raise("KeyError")
    ELSE Ok(stage.position)

\* a generic cell that puts 0 for a null (or zero) value whatever the key
GenericWideCell_ZeroForEveryKey(stage, stageKey) ==
    IF ~HasKey(stage, stageKey) THEN Raise("KeyError")
    ELSE IF stageKey = "elapsedDurationMs"
         THEN IF Truthy(stage[stageKey])
              THEN Ok(Div1000(stage.elapsedDurationMs))
              ELSE Ok(IntVal(0))
         ELSE IF Truthy(stage[stageKey]) THEN Ok(stage[stageKey]) ELSE Ok(0)

\* getMultiStageGenericWide, lines 657-663
GenericWideCell(stage, stageKey) ==
    IF ~HasKey(stage, stageKey) THEN Raise("KeyError")
    ELSE IF stageKey = "elapsedDurationMs"
         THEN IF Truthy(stage[stageKey])
              THEN Ok(Div1000(stage.elapsedDurationMs))
              ELSE Ok(IntVal(0))
         ELSE Ok(stage[stageKey])

\* the inner loop of getMultiStageTimesWide: newEntry's stage columns
RECURSIVE TimesWideRow(_, _, _, _)
TimesWideRow(recs, i, entry, cols) ==
    IF i > Len(recs) THEN Ok([entryId |-> entry, cols |-> cols])
    ELSE IF recs[i].entryId # entry THEN TimesWideRow(recs, i + 1, entry, cols)
    ELSE LET c == TimesWideCell(recs[i]) IN
         IF ~IsOk(c) THEN c
         ELSE IF ~HasKey(recs[i], "stageId") THEN Raise("KeyError")
         ELSE TimesWideRow(recs, i + 1, entry, SetItem(cols, recs[i].stageId, c.val))

RECURSIVE PositionsWideRow(_, _, _, _)
PositionsWideRow(recs, i, entry, cols) ==
    IF i > Len(recs) THEN Ok([entryId |-> entry, cols |-> cols])
    ELSE IF recs[i].entryId # entry THEN PositionsWideRow(recs, i + 1, entry, cols)
    ELSE LET c == PositionsWideCell(recs[i]) IN
         IF ~IsOk(c) THEN c
         ELSE IF ~HasKey(recs[i], "stageId") THEN Raise("KeyError")
         ELSE PositionsWideRow(recs, i + 1, entry, SetItem(cols, recs[i].stageId, c.val))

RECURSIVE GenericWideRow(_, _, _, _, _)
GenericWideRow(recs, stageKey, i, entry, cols) ==
    IF i > Len(recs) THEN Ok([entryId |-> entry, cols |-> cols])
    ELSE IF recs[i].entryId # entry THEN GenericWideRow(recs, stageKey, i + 1, entry, cols)
    ELSE LET c == GenericWideCell(recs[i], stageKey) IN
         IF ~IsOk(c) THEN c
         ELSE IF ~HasKey(recs[i], "stageId") THEN Raise("KeyError")
         ELSE GenericWideRow(recs, stageKey, i + 1, entry, SetItem(cols, recs[i].stageId, c.val))

\* the outer loop `for entry in entries`: one row appended per entry
RECURSIVE TimesWideRows(_, _, _, _)
TimesWideRows(recs, ents, j, rows) ==
    IF j > Len(ents) THEN Ok(rows)
    ELSE LET r == TimesWideRow(recs, 1, ents[j], EmptyDict) IN
         IF ~IsOk(r) THEN r ELSE TimesWideRows(recs, ents, j + 1, Append(rows, r.val))

RECURSIVE PositionsWideRows(_, _, _, _)
PositionsWideRows(recs, ents, j, rows) ==
    IF j > Len(ents) THEN Ok(rows)
    ELSE LET r == PositionsWideRow(recs, 1, ents[j], EmptyDict) IN
         IF ~IsOk(r) THEN r ELSE PositionsWideRows(recs, ents, j + 1, Append(rows, r.val))

RECURSIVE GenericWideRows(_, _, _, _, _)
GenericWideRows(recs, stageKey, ents, j, rows) ==
    IF j > Len(ents) THEN Ok(rows)
    ELSE LET r == GenericWideRow(recs, stageKey, 1, ents[j], EmptyDict) IN
         IF ~IsOk(r) THEN r
         ELSE GenericWideRows(recs, stageKey, ents, j + 1, Append(rows, r.val))

getMultiStageTimesWide(recs) ==
    LET e == FirstSeenEntries(recs, 1, <<>>) IN
    IF ~IsOk(e) THEN e ELSE TimesWideRows(recs, e.val, 1, <<>>)

getMultiStagePositionsWide(recs) ==
    LET e == FirstSeenEntries(recs, 1, <<>>) IN
    IF ~IsOk(e) THEN e ELSE PositionsWideRows(recs, e.val, 1, <<>>)

getMultiStageGenericWide(recs, stageKey) ==
    LET e == FirstSeenEntries(recs, 1, <<>>) IN
    IF ~IsOk(e) THEN e ELSE GenericWideRows(recs, stageKey, e.val, 1, <<>>)


-----------------------------------------------------------------------------
(* Strings *)

\* the text getStageInfo strips from a stage name: " (Live TV)"
LiveTV == <<" ", "(", "L", "i", "v", "e", " ", "T", "V", ")">>

UpperLetters ==
    <<"A", "B", "C", "D", "E", "F", "G", "H", "I", "J", "K", "L", "M",
      "N", "O", "P", "Q", "R", "S", "T", "U", "V", "W", "X", "Y", "Z">>
LowerLetters ==
    <<"a", "b", "c", "d", "e", "f", "g", "h", "i", "j", "k", "l", "m",
      "n", "o", "p", "q", "r", "s", "t", "u", "v", "w", "x", "y", "z">>

\* str.lower() on one ASCII character: an uppercase letter gives its
\* lowercase letter, every other character is left as it is
LowerChar(c) ==
    IF \E i \in DOMAIN UpperLetters : UpperLetters[i] = c
    THEN LowerLetters[CHOOSE i \in DOMAIN UpperLetters : UpperLetters[i] = c]
    ELSE c

\* str.lower()
Lower(str) == [i \in 1..Len(str) |-> LowerChar(str[i])]

\* sub in str
Contains(sub, str) ==
    \E k \in 0..(Len(str) - Len(sub)) :
        \A i \in 1..Len(sub) : str[k + i] = sub[i]

\* old occurs in str at position i
OccursAt(old, str, i) ==
    /\ i + Len(old) - 1 <= Len(str)
    /\ \A j \in 1..Len(old) : str[i + j - 1] = old[j]

\* str.replace(old, "") for a non-empty old, from position i on: the
\* occurrences of old are dropped left to right, without overlap
RECURSIVE RemoveFrom(_, _, _)
RemoveFrom(old, str, i) ==
    IF i > Len(str) THEN <<>>
    ELSE IF OccursAt(old, str, i) THEN RemoveFrom(old, str, i + Len(old))
    ELSE <<str[i]>> \o RemoveFrom(old, str, i + 1)

\* str.replace(" (Live TV)", "")
RemoveLiveTV(str) == RemoveFrom(LiveTV, str, 1)

-----------------------------------------------------------------------------
(* Lookups *)

\* a lookup that forgets lower()
getEventIdFromName_CaseSensitive(seasonArg, eventName) ==
    LET matching == SelectSeq(seasonArg,
                        LAMBDA event : Contains(eventName, event.name))
        e == [i \in 1..Len(matching) |-> matching[i].id]
    IN  IF Len(e) > 0 THEN Ok(e[1]) ELSE Ok(None)

getEventIdFromName(seasonArg, eventName) ==
    LET matching == SelectSeq(seasonArg,
                        LAMBDA event : Contains(Lower(eventName), Lower(event.name)))
        e == [i \in 1..Len(matching) |-> matching[i].id]
    IN  IF Len(e) > 0 THEN Ok(e[1]) ELSE Ok(None)

\* a lookup that compares codes as it compares names
getStageId_CodeIgnoresCase(stagesArg, sname, typ) ==
    LET hit == SelectSeq(stagesArg,
                        LAMBDA s : Contains(Lower(sname), Lower(s[typ])))
        sId == [i \in 1..Len(hit) |-> hit[i].stageId]
    IN  IF Len(sId) > 0 THEN Ok(sId[1]) ELSE Ok(None)

getStageId(stagesArg, sname, typ) ==
    IF typ = "code"
    THEN LET hit == SelectSeq(stagesArg, LAMBDA s : s[typ] = sname)
             sId == [i \in 1..Len(hit) |-> hit[i].stageId]
         IN  IF Len(sId) > 0 THEN Ok(sId[1]) ELSE Ok(None)
    ELSE LET hit == SelectSeq(stagesArg,
                        LAMBDA s : Contains(Lower(sname), Lower(s[typ])))
             sId == [i \in 1..Len(hit) |-> hit[i].stageId]
         IN  IF Len(sId) > 0 THEN Ok(sId[1]) ELSE Ok(None)

getStageInfo(stagesArg, sid, typ, clean) ==
    LET stage == SelectSeq(stagesArg, LAMBDA s : s[typ] = sid) IN
    IF Len(stage) < 0 THEN Ok(None)
    ELSE IF Len(stage) = 0 THEN Raise("IndexError")      \* stage[0]
    ELSE IF clean
         THEN Ok([name |-> RemoveLiveTV(stage[1].name), distance |-> stage[1].distance])
         ELSE Ok([name |-> stage[1].name, distance |-> stage[1].distance])

\* next((e for e in entries if e['entryId'] == entryId), None)
RECURSIVE EntryByIdFrom(_, _, _)
EntryByIdFrom(entriesArg, i, entryId) ==
    IF i > Len(entriesArg) THEN Ok(None)
    ELSE IF ~HasKey(entriesArg[i], "entryId") THEN Raise("KeyError")
    ELSE IF entriesArg[i].entryId = entryId THEN Ok(entriesArg[i])
    ELSE EntryByIdFrom(entriesArg, i + 1, entryId)

\* a lookup that keeps the last match instead of stopping at the first
getEntryById_LastMatch(entriesArg, entryId) ==
    LET hit == SelectSeq(entriesArg, LAMBDA e : e.entryId = entryId)
    IN  IF Len(hit) > 0 THEN Ok(hit[Len(hit)]) ELSE Ok(None)

getEntryById(entriesArg, entryId) == EntryByIdFrom(entriesArg, 1, entryId)

-----------------------------------------------------------------------------
(* Car data *)

CarDataKeys ==
    <<"entryId", "driverId", "codriverId", "manufacturerId", "vehicleModel",
      "eligibility">>

\* the nested reads of getCarDataFromEntry, lines 402-410, in order:
\* entry[outer][inner]
CarDataNested ==
    << <<"manufacturer", "name">>, <<"entrant", "name">>, <<"group", "name">>,
       <<"driver", "abbvName">>, <<"driver", "fullName">>,
       <<"codriver", "abbvName">>, <<"codriver", "fullName">>,
       <<"driver", "code">> >>

\* the exception of the first failing read of getCarDataFromEntry, or "none"
CarDataFailure(entry) ==
    IF \E k \in 1..Len(CarDataKeys) : ~HasKey(entry, CarDataKeys[k])
        THEN "KeyError"
    ELSE IF ~HasKey(entry, "eventClasses") THEN "KeyError"
    ELSE IF Len(entry.eventClasses) = 0 THEN "IndexError"
    ELSE IF ~HasKey(entry.eventClasses[1], "name") THEN "KeyError"
    ELSE IF \E k \in 1..Len(CarDataNested) :
               \/ ~HasKey(entry, CarDataNested[k][1])
               \/ ~HasKey(entry[CarDataNested[k][1]], CarDataNested[k][2])
        THEN "KeyError"
    ELSE "none"

getCarDataFromEntry(entry) ==
    IF CarDataFailure(entry) # "none" THEN Raise(CarDataFailure(entry))
    ELSE Ok([entryId |-> entry.entryId,
             driverId |-> entry.driverId,
             codriverId |-> entry.codriverId,
             manufacturerId |-> entry.manufacturerId,
             vehicleModel |-> entry.vehicleModel,
             eligibility |-> entry.eligibility,
             classname |-> entry.eventClasses[1].name,
             manufacturer |-> entry.manufacturer.name,
             entrantname |-> entry.entrant.name,
             groupname |-> entry.group.name,
             drivername |-> entry.driver.abbvName,
             driverfullname |-> entry.driver.fullName,
             codrivername |-> entry.codriver.abbvName,
             codriverfullname |-> entry.codriver.fullName,
             code |-> entry.driver.code])

\* a loop that catches the error and leaves the entry out
RECURSIVE CarDataLoop_SkipsIncomplete(_, _, _)
CarDataLoop_SkipsIncomplete(entriesArg, i, dataList) ==
    IF i > Len(entriesArg) THEN Ok(dataList)
    ELSE LET newEntry == getCarDataFromEntry(entriesArg[i]) IN
         IF ~IsOk(newEntry)
         THEN CarDataLoop_SkipsIncomplete(entriesArg, i + 1, dataList)
         ELSE CarDataLoop_SkipsIncomplete(entriesArg, i + 1,
                                          Append(dataList, newEntry.val))

RECURSIVE CarDataLoop(_, _, _)
CarDataLoop(entriesArg, i, dataList) ==
    IF i > Len(entriesArg) THEN Ok(dataList)
    ELSE LET newEntry == getCarDataFromEntry(entriesArg[i]) IN
         IF ~IsOk(newEntry) THEN newEntry
         ELSE CarDataLoop(entriesArg, i + 1, Append(dataList, newEntry.val))

getCarData(entriesArg) == CarDataLoop(entriesArg, 1, <<>>)

-----------------------------------------------------------------------------
(* Itinerary *)

getSections(itin) == [i \in 1..Len(itin) |-> itin[i].itinerarySections]

\* a flattening that stores the leg's id where the section's id belongs
StagesOfSection_LegId(s) ==
    [k \in 1..Len(s.stages) |->
        SetItem(s.stages[k], "itinerarySectionId", s.itineraryLegId)]

\* lines 158-160 for one section dict s: each of its stages, with the section's
\* id stored under 'itinerarySectionId'
StagesOfSection(s) ==
    [k \in 1..Len(s.stages) |->
        SetItem(s.stages[k], "itinerarySectionId", s.itinerarySectionId)]

\* lines 137-139 for one section dict c
ControlsOfSection(c) ==
    [k \in 1..Len(c.controls) |->
        SetItem(c.controls[k], "itinerarySectionId", c.itinerarySectionId)]

\* `for s in section`, from the j-th section dict of one leg's list on
RECURSIVE StagesOfLeg(_, _)
StagesOfLeg(section, j) ==
    IF j > Len(section) THEN <<>>
    ELSE StagesOfSection(section[j]) \o StagesOfLeg(section, j + 1)

RECURSIVE ControlsOfLeg(_, _)
ControlsOfLeg(section, j) ==
    IF j > Len(section) THEN <<>>
    ELSE ControlsOfSection(section[j]) \o ControlsOfLeg(section, j + 1)

\* `for section in sections`, from the i-th leg's list on
RECURSIVE StagesFrom(_, _)
StagesFrom(sections, i) ==
    IF i > Len(sections) THEN <<>>
    ELSE StagesOfLeg(sections[i], 1) \o StagesFrom(sections, i + 1)

RECURSIVE ControlsFrom(_, _)
ControlsFrom(sections, i) ==
    IF i > Len(sections) THEN <<>>
    ELSE ControlsOfLeg(sections[i], 1) \o ControlsFrom(sections, i + 1)

\* the list getStages returns
getStages(sections) == Ok(StagesFrom(sections, 1))

\* the list getControls returns
getControls(sections) == Ok(ControlsFrom(sections, 1))

\* the itinerary after getStages(getSections(itin)): the stage dicts are the
\* itinerary's own, so each now carries its section's id
StagesMarked(itin) ==
    [l \in 1..Len(itin) |->
        [itin[l] EXCEPT !.itinerarySections =
            [j \in 1..Len(itin[l].itinerarySections) |->
                [itin[l].itinerarySections[j] EXCEPT
                    !.stages = StagesOfSection(itin[l].itinerarySections[j])]]]]

\* the itinerary after getControls(getSections(itin))
ControlsMarked(itin) ==
    [l \in 1..Len(itin) |->
        [itin[l] EXCEPT !.itinerarySections =
            [j \in 1..Len(itin[l].itinerarySections) |->
                [itin[l].itinerarySections[j] EXCEPT
                    !.controls = ControlsOfSection(itin[l].itinerarySections[j])]]]]

\* lines 269-273: the leg id of the last section carrying the section id
RECURSIVE LegIdOfSection(_, _, _, _)
LegIdOfSection(sections, i, itinerarySectionId, itineraryLegId) ==
    IF i > Len(sections) THEN itineraryLegId
    ELSE LET hits == SelectSeq(sections[i],
                        LAMBDA s : s.itinerarySectionId = itinerarySectionId)
         IN  LegIdOfSection(sections, i + 1, itinerarySectionId,
                IF Len(hits) > 0 THEN hits[Len(hits)].itineraryLegId
                ELSE itineraryLegId)

getStartListId(itin, itinerarySectionId) ==
    LET sections == getSections(itin)
        itineraryLegId == LegIdOfSection(sections, 1, itinerarySectionId, None)
    IN  IF ~Truthy(itineraryLegId) THEN Ok(None)
        ELSE LET legs == SelectSeq(itin,
                            LAMBDA item : item.itineraryLegId = itineraryLegId)
             IN  IF Len(legs) > 0 THEN Ok(legs[1].startListId) ELSE Ok(None)

-----------------------------------------------------------------------------
(* Splits *)

\* lines 701-702 for one split dict
DriverSplitOf(split) ==
    IF ~HasKey(split, "elapsedDurationMs") THEN Raise("KeyError")
    ELSE IF split.elapsedDurationMs = None THEN Raise("TypeError")
    ELSE Ok(DelKey(SetItem(split, "elapsedDurationS",
                           Div1000(split.elapsedDurationMs)),
                   "elapsedDurationMs"))

\* `for split in entry['splitPointTimes']`, from the k-th split on
RECURSIVE SplitsOfEntry(_, _, _)
SplitsOfEntry(splitPointTimes, k, driverSplits) ==
    IF k > Len(splitPointTimes) THEN Ok(driverSplits)
    ELSE LET split == DriverSplitOf(splitPointTimes[k]) IN
         IF ~IsOk(split) THEN split
         ELSE SplitsOfEntry(splitPointTimes, k + 1, Append(driverSplits, split.val))

\* `for entry in splits['entrySplitPointTimes']`, from the i-th entry on
RECURSIVE SplitsFrom(_, _, _)
SplitsFrom(entrySplitPointTimes, i, driverSplits) ==
    IF i > Len(entrySplitPointTimes) THEN Ok(driverSplits)
    ELSE LET r == SplitsOfEntry(entrySplitPointTimes[i].splitPointTimes, 1,
                                driverSplits)
         IN  IF ~IsOk(r) THEN r
             ELSE SplitsFrom(entrySplitPointTimes, i + 1, r.val)

\* the list getDriverSplits returns
getDriverSplits(splits) == SplitsFrom(splits.entrySplitPointTimes, 1, <<>>)

\* What the inner loop of getDriverSplits leaves in entry['splitPointTimes']:
\* lines 701-702 rewrite each split dict of the payload itself, from the k-th
\* on, until one raises (done is FALSE then and the later dicts are untouched).
RECURSIVE SplitsOfEntryMarked(_, _)
SplitsOfEntryMarked(splitPointTimes, k) ==
    IF k > Len(splitPointTimes) THEN [done |-> TRUE, val |-> splitPointTimes]
    ELSE LET split == DriverSplitOf(splitPointTimes[k]) IN
         IF ~IsOk(split) THEN [done |-> FALSE, val |-> splitPointTimes]
         ELSE SplitsOfEntryMarked([splitPointTimes EXCEPT ![k] = split.val], k + 1)

\* What the outer loop leaves in splits['entrySplitPointTimes'], from the
\* i-th entry on
RECURSIVE SplitsMarkedFrom(_, _)
SplitsMarkedFrom(entrySplitPointTimes, i) ==
    IF i > Len(entrySplitPointTimes) THEN entrySplitPointTimes
    ELSE LET r == SplitsOfEntryMarked(entrySplitPointTimes[i].splitPointTimes, 1)
             marked == [entrySplitPointTimes EXCEPT ![i].splitPointTimes = r.val]
         IN  IF ~r.done THEN marked ELSE SplitsMarkedFrom(marked, i + 1)

\* the payload after getDriverSplits(splits) returned or raised
SplitsMarked(splits) ==
    [splits EXCEPT !.entrySplitPointTimes = SplitsMarkedFrom(@, 1)]

\* getDriverSplitsWide, line 723: one column per split of the entry, from the
\* k-th split on; a later split with the same splitPointId overwrites
RECURSIVE SplitsWideRow(_, _, _)
SplitsWideRow(splitPointTimes, k, newEntry) ==
    IF k > Len(splitPointTimes) THEN Ok(newEntry)
    ELSE LET split == splitPointTimes[k] IN
         IF ~HasKey(split, "elapsedDurationMs") THEN Raise("KeyError")
         ELSE IF split.elapsedDurationMs = None THEN Raise("TypeError")
         ELSE SplitsWideRow(splitPointTimes, k + 1,
                  [newEntry EXCEPT !.cols = SetItem(@, split.splitPointId,
                                                    Div1000(split.elapsedDurationMs))])

\* `for entry in splits['entrySplitPointTimes']` of getDriverSplitsWide
RECURSIVE SplitsWideRows(_, _, _)
SplitsWideRows(entrySplitPointTimes, i, rows) ==
    IF i > Len(entrySplitPointTimes) THEN Ok(rows)
    ELSE LET entry == entrySplitPointTimes[i]
             r == SplitsWideRow(entry.splitPointTimes, 1,
                                [entryId |-> entry.entryId, cols |-> EmptyDict])
         IN  IF ~IsOk(r) THEN r
             ELSE SplitsWideRows(entrySplitPointTimes, i + 1, Append(rows, r.val))

\* the list getDriverSplitsWide returns; the payload is only read
getDriverSplitsWide(splits) == SplitsWideRows(splits.entrySplitPointTimes, 1, <<>>)

-----------------------------------------------------------------------------
(* Multi-stage fetches *)

MultiOps == {"getMultipleStageTimes", "getMultipleOverall", "getMultiSplitTimes"}

\* getOverallResult, line 513: every position gets the stage id
WithStageId(overall, stageId) ==
    [i \in 1..Len(overall) |-> SetItem(overall[i], "stageId", stageId)]

\* what the per-stage call makes of the parsed body of its GET
PerStageResult(op, body, stageId) ==
    CASE op = "getMultipleStageTimes" -> Ok(body)
      [] op = "getMultipleOverall" -> Ok(WithStageId(body, stageId))
      [] op = "getMultiSplitTimes" -> getDriverSplits(body)

\* `for res in resultList: for pos in res: final.append(pos)`
RECURSIVE FlattenInto(_, _, _)
FlattenInto(results, i, acc) ==
    IF i > Len(results) THEN acc
    ELSE FlattenInto(results, i + 1, acc \o results[i])

\* a loop that catches the exception and goes on to the next stage
Uncaught_Swallowed(err) == [pc |-> "fetch", ret |-> NoRet]

\* an exception raised by a per-stage call is not caught: the multi-stage
\* call ends there and raises it
Uncaught(err) == [pc |-> "failed", ret |-> Raise(err)]

-----------------------------------------------------------------------------
(* Bounded inputs *)

MaxRecords == 3

\* all sequences over S of length at most n
SeqsUpTo(S, n) == UNION {[1..k -> S] : k \in 0..n}

EntryIds == {1, 2}
StageIds == {10, 11}

\* what a stage-times record carries besides its two identifiers: a duration
\* and a position, a null duration and position, or no duration key at all
StageTimeFields ==
    { [elapsedDurationMs |-> 65000, position |-> 1],
      [elapsedDurationMs |-> 1500, position |-> 3],
      [elapsedDurationMs |-> None, position |-> None],
      [position |-> 2] }

StageTimeRecords ==
    { [entryId |-> e, stageId |-> s] @@ f :
        e \in EntryIds, s \in StageIds, f \in StageTimeFields }

StageKeys == {"elapsedDurationMs", "position"}

MaxEvents == 3
MaxStages == 2
MaxEntries == 2

EventNames == { <<"M", "c">>, <<"m", "c", "s">>, <<"R">>, <<"c", "M">> }
EventIds == {7, 8}
Events == { [id |-> i, name |-> n] : i \in EventIds, n \in EventNames }
EventQueries ==
    { <<>>, <<"m", "c">>, <<"C">>, <<"r">>, <<"b">>, <<"c", "m", "c">> }

StageCodes == { <<"S", "1">>, <<"s", "1">>, <<"S", "2">> }
StageNames == { <<"a", "b">>, <<"A", "B">> \o LiveTV, <<"b">> }
\* a stage's distance is given by its id: 5 for stage 10, 6 for stage 11
StageDicts ==
    { [stageId |-> i, code |-> c, name |-> n, distance |-> i - 5] :
        i \in StageIds, c \in StageCodes, n \in StageNames }
StageQueries ==
    { <<"S", "1">>, <<"s", "1">>, <<"S", "3">>, <<"B">>, <<"t", "V", ")">> }
StageIdQueries == StageIds \cup {12}

\* an entry as the cars endpoint gives it, complete
FullEntry(e) ==
    [entryId |-> e, driverId |-> 100 + e, codriverId |-> 200 + e,
     manufacturerId |-> 30, vehicleModel |-> "Yaris", eligibility |-> "M",
     eventClasses |-> << [name |-> "RC1"], [name |-> "RC2"] >>,
     manufacturer |-> [name |-> "Toyota"],
     entrant |-> [name |-> "TGR"],
     group |-> [name |-> "Rally1"],
     driver |-> [abbvName |-> "D", fullName |-> "Driver", code |-> "DRV"],
     codriver |-> [abbvName |-> "C", fullName |-> "Codriver"]]

\* the shapes of entry the inputs range over: complete, or with one part missing
EntryShapes ==
    {"full", "noEligibility", "noManufacturer", "noDriverCode", "noClasses",
     "classNoName", "noEligibilityNoClasses"}

EntryOfShape(e, shape) ==
    LET full == FullEntry(e) IN
    CASE shape = "full" -> full
      [] shape = "noEligibility" -> DelKey(full, "eligibility")
      [] shape = "noManufacturer" -> DelKey(full, "manufacturer")
      [] shape = "noDriverCode" ->
            [full EXCEPT !.driver = DelKey(full.driver, "code")]
      [] shape = "noClasses" -> [full EXCEPT !.eventClasses = <<>>]
      [] shape = "classNoName" ->
            [full EXCEPT !.eventClasses = << [id |-> 1] >>]
      [] shape = "noEligibilityNoClasses" ->
            DelKey([full EXCEPT !.eventClasses = <<>>], "eligibility")

EntryDicts == { EntryOfShape(e, sh) : e \in EntryIds, sh \in EntryShapes }
EntryIdQueries == EntryIds \cup {3}

MaxLegs == 2

\* what a section holds: two stages and a control, or no stage and two controls
SectionKinds == {"stages", "controls"}
SectionIds == {1, 2, 3}

\* the shape of one leg: at most two sections, each an id and a kind
LegShapes ==
    UNION { [1..n -> [sid : SectionIds, kind : SectionKinds]] : n \in {0, 1, 2} }

\* the itinerary of a shape: leg l has itineraryLegId l and startListId 50 + l;
\* stage and control ids are unique over the event
SectionOfShape(l, j, sh) ==
    [itinerarySectionId |-> sh.sid,
     itineraryLegId |-> l,
     stages |-> IF sh.kind = "stages"
                THEN << [stageId |-> 100 * l + 10 * j + 1],
                        [stageId |-> 100 * l + 10 * j + 2] >>
                ELSE <<>>,
     controls |-> IF sh.kind = "stages"
                  THEN << [controlId |-> 1000 * l + 10 * j + 1] >>
                  ELSE << [controlId |-> 1000 * l + 10 * j + 1],
                          [controlId |-> 1000 * l + 10 * j + 2] >>]

ItineraryOfShape(shape) ==
    [l \in 1..Len(shape) |->
        [itineraryLegId |-> l,
         startListId |-> 50 + l,
         itinerarySections |->
            [j \in 1..Len(shape[l]) |-> SectionOfShape(l, j, shape[l][j])]]]

\* itineraries for the start-list lookup: leg ids and the sections' leg ids
\* range over 0, 1, 2 independently, sections carry no stages
LegIds == {0, 1, 2}
StartListIds == {5, 6}
BareSections ==
    { [itinerarySectionId |-> sid, itineraryLegId |-> lid,
       stages |-> <<>>, controls |-> <<>>] : sid \in {1, 2}, lid \in LegIds }
BareLegs ==
    { [itineraryLegId |-> lid, startListId |-> st, itinerarySections |-> secs] :
        lid \in LegIds, st \in StartListIds,
        secs \in UNION { [1..n -> BareSections] : n \in {0, 1} } }
SectionIdQueries == {1, 2}

MaxStageList == 3

StageLists == SeqsUpTo(StageIds, MaxStageList)
BodySizes == {0, 1, 2}
FetchErrors == {"ConnectionError", "JSONDecodeError"}

\* the parsed body the API gives for a stage, with n entries
TimesBody(s, n) ==
    [e \in 1..n |-> [entryId |-> e, stageId |-> s,
                     elapsedDurationMs |-> 1000 * s + e, position |-> e]]

OverallBody(s, n) ==
    [e \in 1..n |-> [entryId |-> e, position |-> e, totalTimeMs |-> 1000 * s + e]]

SplitsBody(s, n) ==
    [entrySplitPointTimes |->
        [e \in 1..n |->
            [entryId |-> e,
             splitPointTimes |->
                [k \in 1..e |-> [splitPointId |-> 10 * s + k, entryId |-> e,
                                 elapsedDurationMs |-> 500 * k + e]]]]]

MaxSplitEntries == 2
MaxSplitPoints == 2

SplitPointIds == {1, 2}
SplitDurations == {501, 65000, None}

\* the split dicts of entry e: each names its split point and its entry
SplitDicts(e) ==
    [splitPointId : SplitPointIds, entryId : {e}, elapsedDurationMs : SplitDurations]

SplitEntries ==
    UNION { [entryId : {e}, splitPointTimes : SeqsUpTo(SplitDicts(e), MaxSplitPoints)]
            : e \in EntryIds }

\* the payloads of getSplitTimes handed to the two split extractions
SplitPayloads ==
    [entrySplitPointTimes : SeqsUpTo(SplitEntries, MaxSplitEntries)]

Bodies(op, s) ==
    CASE op = "getMultipleStageTimes" -> {TimesBody(s, n) : n \in BodySizes}
      [] op = "getMultipleOverall" -> {OverallBody(s, n) : n \in BodySizes}
      [] op = "getMultiSplitTimes" -> {SplitsBody(s, n) : n \in BodySizes}

-----------------------------------------------------------------------------
(* The calls *)

NoFetch ==
    /\ pc = "idle"
    /\ stageList = <<>>
    /\ requests = <<>>
    /\ resultList = <<>>
    /\ final = <<>>

InitPivot ==
    /\ multiStageTimes \in SeqsUpTo(StageTimeRecords, MaxRecords)
    /\ season = <<>>
    /\ stages = <<>>
    /\ entries = <<>>
    /\ itinerary = <<>>
    /\ itinerary0 = <<>>
    /\ splitTimes = <<>>
    /\ splitTimes0 = <<>>
    /\ call = NoCall
    /\ ret = NoRet
    /\ NoFetch

fetchVars == <<pc, stageList, requests, resultList, final>>
inputVars == <<multiStageTimes, season, stages, entries, itinerary, itinerary0,
               splitTimes, splitTimes0>>

CallMultiStageTimesWide ==
    /\ call' = [op |-> "getMultiStageTimesWide"]
    /\ ret' = getMultiStageTimesWide(multiStageTimes)
    /\ UNCHANGED <<inputVars, fetchVars>>

CallMultiStagePositionsWide ==
    /\ call' = [op |-> "getMultiStagePositionsWide"]
    /\ ret' = getMultiStagePositionsWide(multiStageTimes)
    /\ UNCHANGED <<inputVars, fetchVars>>

CallMultiStageGenericWide ==
    \E stageKey \in StageKeys :
        /\ call' = [op |-> "getMultiStageGenericWide", stageKey |-> stageKey]
        /\ ret' = getMultiStageGenericWide(multiStageTimes, stageKey)
        /\ UNCHANGED <<inputVars, fetchVars>>

InitItinerary ==
    /\ \E shape \in SeqsUpTo(LegShapes, MaxLegs) :
          /\ itinerary = ItineraryOfShape(shape)
          /\ itinerary0 = ItineraryOfShape(shape)
    /\ multiStageTimes = <<>>
    /\ season = <<>>
    /\ stages = <<>>
    /\ entries = <<>>
    /\ splitTimes = <<>>
    /\ splitTimes0 = <<>>
    /\ call = NoCall
    /\ ret = NoRet
    /\ NoFetch

\* stages = helper.getStages(helper.getSections(itinerary))
CallGetStages ==
    /\ call' = [op |-> "getStages"]
    /\ ret' = getStages(getSections(itinerary))
    /\ itinerary' = StagesMarked(itinerary)
    /\ UNCHANGED <<multiStageTimes, season, stages, entries, itinerary0,
                   splitTimes, splitTimes0, fetchVars>>

CallGetControls ==
    /\ call' = [op |-> "getControls"]
    /\ ret' = getControls(getSections(itinerary))
    /\ itinerary' = ControlsMarked(itinerary)
    /\ UNCHANGED <<multiStageTimes, season, stages, entries, itinerary0,
                   splitTimes, splitTimes0, fetchVars>>

NextItinerary ==
    \/ CallGetStages
    \/ CallGetControls

SpecItinerary == InitItinerary /\ [][NextItinerary]_vars

InitStartList ==
    /\ itinerary \in SeqsUpTo(BareLegs, MaxLegs)
    /\ itinerary0 = itinerary
    /\ multiStageTimes = <<>>
    /\ season = <<>>
    /\ stages = <<>>
    /\ entries = <<>>
    /\ splitTimes = <<>>
    /\ splitTimes0 = <<>>
    /\ call = NoCall
    /\ ret = NoRet
    /\ NoFetch

CallGetStartListId ==
    \E itinerarySectionId \in SectionIdQueries :
        /\ call' = [op |-> "getStartListId",
                    itinerarySectionId |-> itinerarySectionId]
        /\ ret' = getStartListId(itinerary, itinerarySectionId)
        /\ UNCHANGED <<inputVars, fetchVars>>

NextStartList == CallGetStartListId

SpecStartList == InitStartList /\ [][NextStartList]_vars

InitFetch ==
    /\ multiStageTimes = <<>>
    /\ season = <<>>
    /\ stages = <<>>
    /\ entries = <<>>
    /\ itinerary = <<>>
    /\ itinerary0 = <<>>
    /\ splitTimes = <<>>
    /\ splitTimes0 = <<>>
    /\ call = NoCall
    /\ ret = NoRet
    /\ NoFetch

\* a multi-stage fetch is called
StartMulti ==
    \E op \in MultiOps, sl \in StageLists :
        /\ pc \in {"idle", "done", "failed"}
        /\ call' = [op |-> op]
        /\ ret' = NoRet
        /\ pc' = "fetch"
        /\ stageList' = sl
        /\ requests' = <<>>
        /\ resultList' = <<>>
        /\ final' = <<>>
        /\ UNCHANGED inputVars

StageToFetch == stageList[Len(requests) + 1]

\* the GET for the next stage answers and the per-stage call returns
FetchOk ==
    /\ pc = "fetch"
    /\ Len(requests) < Len(stageList)
    /\ \E body \in Bodies(call.op, StageToFetch) :
          LET res == PerStageResult(call.op, body, StageToFetch) IN
          /\ requests' = Append(requests,
                            [stage |-> StageToFetch, ok |-> TRUE, body |-> body])
          /\ IF ~IsOk(res)
             THEN /\ pc' = Uncaught(res.exc).pc
                  /\ ret' = Uncaught(res.exc).ret
                  /\ UNCHANGED <<resultList, final>>
             ELSE /\ pc' = "fetch"
                  /\ ret' = ret
                  /\ IF call.op = "getMultiSplitTimes"
                     THEN final' = final \o res.val /\ resultList' = resultList
                     ELSE resultList' = Append(resultList, res.val) /\ final' = final
    /\ UNCHANGED <<inputVars, call, stageList>>

\* the GET for the next stage raises
FetchFail ==
    /\ pc = "fetch"
    /\ Len(requests) < Len(stageList)
    /\ \E err \in FetchErrors :
          /\ requests' = Append(requests,
                            [stage |-> StageToFetch, ok |-> FALSE, err |-> err])
          /\ pc' = Uncaught(err).pc
          /\ ret' = Uncaught(err).ret
    /\ UNCHANGED <<inputVars, call, stageList, resultList, final>>

\* every stage is fetched: the list is completed and returned
ReturnMulti ==
    /\ pc = "fetch"
    /\ Len(requests) = Len(stageList)
    /\ final' = IF call.op = "getMultiSplitTimes" THEN final
                ELSE FlattenInto(resultList, 1, <<>>)
    /\ ret' = Ok(final')
    /\ pc' = "done"
    /\ UNCHANGED <<inputVars, call, stageList, requests, resultList>>

NextFetch ==
    \/ StartMulti
    \/ FetchOk
    \/ FetchFail
    \/ ReturnMulti

SpecFetch == InitFetch /\ [][NextFetch]_vars

NextPivot ==
    \/ CallMultiStageTimesWide
    \/ CallMultiStagePositionsWide
    \/ CallMultiStageGenericWide

SpecPivot == InitPivot /\ [][NextPivot]_vars


InitEvent ==
    /\ season \in SeqsUpTo(Events, MaxEvents)
    /\ multiStageTimes = <<>>
    /\ stages = <<>>
    /\ entries = <<>>
    /\ itinerary = <<>>
    /\ itinerary0 = <<>>
    /\ splitTimes = <<>>
    /\ splitTimes0 = <<>>
    /\ call = NoCall
    /\ ret = NoRet
    /\ NoFetch

CallGetEventIdFromName ==
    \E eventName \in EventQueries :
        /\ call' = [op |-> "getEventIdFromName", eventName |-> eventName]
        /\ ret' = getEventIdFromName(season, eventName)
        /\ UNCHANGED <<inputVars, fetchVars>>

NextEvent == CallGetEventIdFromName

SpecEvent == InitEvent /\ [][NextEvent]_vars

InitStage ==
    /\ stages \in SeqsUpTo(StageDicts, MaxStages)
    /\ multiStageTimes = <<>>
    /\ season = <<>>
    /\ entries = <<>>
    /\ itinerary = <<>>
    /\ itinerary0 = <<>>
    /\ splitTimes = <<>>
    /\ splitTimes0 = <<>>
    /\ call = NoCall
    /\ ret = NoRet
    /\ NoFetch

CallGetStageId ==
    \E typ \in {"code", "name"}, sname \in StageQueries :
        /\ call' = [op |-> "getStageId", sname |-> sname, typ |-> typ]
        /\ ret' = getStageId(stages, sname, typ)
        /\ UNCHANGED <<inputVars, fetchVars>>

CallGetStageInfo ==
    \E typ \in {"stageId", "code"}, clean \in BOOLEAN :
        \E sid \in (IF typ = "stageId" THEN StageIdQueries ELSE StageQueries) :
            /\ call' = [op |-> "getStageInfo", sid |-> sid, typ |-> typ,
                        clean |-> clean]
            /\ ret' = getStageInfo(stages, sid, typ, clean)
            /\ UNCHANGED <<inputVars, fetchVars>>

NextStage ==
    \/ CallGetStageId
    \/ CallGetStageInfo

SpecStage == InitStage /\ [][NextStage]_vars

InitEntry ==
    /\ entries \in SeqsUpTo(EntryDicts, MaxEntries)
    /\ multiStageTimes = <<>>
    /\ season = <<>>
    /\ stages = <<>>
    /\ itinerary = <<>>
    /\ itinerary0 = <<>>
    /\ splitTimes = <<>>
    /\ splitTimes0 = <<>>
    /\ call = NoCall
    /\ ret = NoRet
    /\ NoFetch

CallGetEntryById ==
    \E entryId \in EntryIdQueries :
        /\ call' = [op |-> "getEntryById", entryId |-> entryId]
        /\ ret' = getEntryById(entries, entryId)
        /\ UNCHANGED <<inputVars, fetchVars>>

CallGetCarData ==
    /\ call' = [op |-> "getCarData"]
    /\ ret' = getCarData(entries)
    /\ UNCHANGED <<inputVars, fetchVars>>

NextEntry ==
    \/ CallGetEntryById
    \/ CallGetCarData

SpecEntry == InitEntry /\ [][NextEntry]_vars

InitSplits ==
    /\ splitTimes \in SplitPayloads
    /\ splitTimes0 = splitTimes
    /\ multiStageTimes = <<>>
    /\ season = <<>>
    /\ stages = <<>>
    /\ entries = <<>>
    /\ itinerary = <<>>
    /\ itinerary0 = <<>>
    /\ call = NoCall
    /\ ret = NoRet
    /\ NoFetch

\* helper.getDriverSplits(splits): the split dicts it returns are the very
\* dicts of the payload, rewritten by lines 701-702
CallGetDriverSplits ==
    /\ call' = [op |-> "getDriverSplits"]
    /\ ret' = getDriverSplits(splitTimes)
    /\ splitTimes' = SplitsMarked(splitTimes)
    /\ UNCHANGED <<multiStageTimes, season, stages, entries, itinerary, itinerary0,
                   splitTimes0, fetchVars>>

CallGetDriverSplitsWide ==
    /\ call' = [op |-> "getDriverSplitsWide"]
    /\ ret' = getDriverSplitsWide(splitTimes)
    /\ UNCHANGED <<inputVars, fetchVars>>

NextSplits ==
    \/ CallGetDriverSplits
    \/ CallGetDriverSplitsWide

SpecSplits == InitSplits /\ [][NextSplits]_vars

-----------------------------------------------------------------------------
(* Claims about the wide pivots *)

PivotCall ==
    call.op \in {"getMultiStageTimesWide", "getMultiStagePositionsWide",
                 "getMultiStageGenericWide"}

\* the pivot on elapsed duration: getMultiStageTimesWide, or the generic pivot
\* called with stageKey 'elapsedDurationMs'
ElapsedCall ==
    \/ call.op = "getMultiStageTimesWide"
    \/ /\ call.op = "getMultiStageGenericWide"
       /\ call.stageKey = "elapsedDurationMs"

InputEntryIds == {multiStageTimes[i].entryId : i \in 1..Len(multiStageTimes)}

FirstIndexOf(e) ==
    CHOOSE i \in 1..Len(multiStageTimes) :
        /\ multiStageTimes[i].entryId = e
        /\ \A j \in 1..(i - 1) : multiStageTimes[j].entryId # e

RecordsOf(e, s) ==
    {i \in 1..Len(multiStageTimes) :
        multiStageTimes[i].entryId = e /\ multiStageTimes[i].stageId = s}

StagesOf(e) ==
    {multiStageTimes[i].stageId :
        i \in {k \in 1..Len(multiStageTimes) : multiStageTimes[k].entryId = e}}

\* the record the column (e, s) is left holding: the last one in the list
LastRecordOf(e, s) ==
    multiStageTimes[CHOOSE i \in RecordsOf(e, s) : \A j \in RecordsOf(e, s) : j <= i]

AllHaveDuration ==
    \A i \in 1..Len(multiStageTimes) : HasKey(multiStageTimes[i], "elapsedDurationMs")

\* C1: whenever one of the three wide pivots returns, its rows carry exactly
\* the distinct entryIds of the input, each once, in the order in which each
\* entryId first occurs in the input list.
C1_OneRowPerEntryInFirstSeenOrder ==
    (PivotCall /\ IsOk(ret)) =>
        LET rows == ret.val IN
        /\ {rows[i].entryId : i \in 1..Len(rows)} = InputEntryIds
        /\ \A i, j \in 1..Len(rows) : i # j => rows[i].entryId # rows[j].entryId
        /\ \A i, j \in 1..Len(rows) :
              i < j => FirstIndexOf(rows[i].entryId) < FirstIndexOf(rows[j].entryId)

\* C1 witness: entry 2 occurs before entry 1 and again after it; the pivot
\* returned the two rows 2, 1.
C1_Witness ==
    /\ PivotCall /\ IsOk(ret)
    /\ Len(multiStageTimes) = 3
    /\ multiStageTimes[1].entryId = 2
    /\ multiStageTimes[2].entryId = 1
    /\ multiStageTimes[3].entryId = 2
    /\ Len(ret.val) = 2
    /\ ret.val[1].entryId = 2
    /\ ret.val[2].entryId = 1

\* the columns of every row are the stage ids of that entry's records, and
\* each holds the seconds of the last record for that entry and stage
ElapsedColumnsRight(zeroWhenAbsent) ==
    \A r \in 1..Len(ret.val) :
        LET row == ret.val[r] IN
        /\ DOMAIN row.cols = StagesOf(row.entryId)
        /\ \A s \in DOMAIN row.cols :
              LET rec == LastRecordOf(row.entryId, s) IN
              IF ~HasKey(rec, "elapsedDurationMs")
              THEN zeroWhenAbsent /\ row.cols[s].num = 0
              ELSE IF rec.elapsedDurationMs = None
              THEN row.cols[s].num = 0
              ELSE row.cols[s].num * 1000 = rec.elapsedDurationMs * row.cols[s].den

\* C2 as stated: the pivot on elapsed duration never fails; a null or an
\* absent duration gives 0 in the record's column and a present duration
\* gives the duration divided by 1000.
C2_AsStated ==
    ElapsedCall => (IsOk(ret) /\ ElapsedColumnsRight(TRUE))

\* C2, amended: when every record has the key elapsedDurationMs the pivot on
\* elapsed duration returns rows whose columns are exactly the entry's stage
\* ids, a null duration giving 0 and a present one the duration divided by
\* 1000; when some record lacks the key the call raises KeyError.
C2_NullIsZeroAbsentRaises ==
    ElapsedCall =>
        IF AllHaveDuration
        THEN IsOk(ret) /\ ElapsedColumnsRight(FALSE)
        ELSE ret = Raise("KeyError")

\* C2 witness: a row with the two columns 10 and 11, one from a duration of
\* 65000 ms and one from a null duration.
C2_Witness ==
    /\ call.op = "getMultiStageTimesWide" /\ IsOk(ret)
    /\ \E r \in 1..Len(ret.val) :
          /\ DOMAIN ret.val[r].cols = {10, 11}
          /\ ret.val[r].cols[10] = [num |-> 65, den |-> 1]
          /\ ret.val[r].cols[11].num = 0
          /\ LastRecordOf(ret.val[r].entryId, 11).elapsedDurationMs = None

\* the columns of every row are the stage ids of that entry's records, and
\* each holds, as it is, the value under key of the last record for that entry
\* and stage
ColumnsCopied(key) ==
    \A r \in 1..Len(ret.val) :
        LET row == ret.val[r] IN
        /\ DOMAIN row.cols = StagesOf(row.entryId)
        /\ \A s \in DOMAIN row.cols : row.cols[s] = LastRecordOf(row.entryId, s)[key]

\* C12: the generic pivot called with 'elapsedDurationMs' gives what
\* getMultiStageTimesWide gives on the same record list (the same rows in the
\* same order with the same columns and values, or the same exception), and
\* called with 'position' what getMultiStagePositionsWide gives; with
\* 'position' every column holds the record's position unchanged, a null
\* position staying null.
C12_GenericSubsumesSpecialised ==
    call.op = "getMultiStageGenericWide" =>
        /\ call.stageKey = "elapsedDurationMs" =>
              ret = getMultiStageTimesWide(multiStageTimes)
        /\ call.stageKey = "position" =>
              /\ ret = getMultiStagePositionsWide(multiStageTimes)
              /\ IsOk(ret) => ColumnsCopied("position")

\* C12 witness: the generic pivot on 'position' returned a row whose column
\* 10 is the null position of its record and whose column 11 is position 3.
C12_Witness ==
    /\ call.op = "getMultiStageGenericWide" /\ call.stageKey = "position"
    /\ IsOk(ret)
    /\ \E r \in 1..Len(ret.val) :
          /\ DOMAIN ret.val[r].cols = {10, 11}
          /\ ret.val[r].cols[10] = None
          /\ LastRecordOf(ret.val[r].entryId, 10).position = None
          /\ ret.val[r].cols[11] = 3

-----------------------------------------------------------------------------
(* Claims about the lookups *)

Min(S) == CHOOSE x \in S : \A y \in S : x <= y

\* two characters that are the same letter up to case
SameLetter(a, b) ==
    \/ a = b
    \/ \E i \in DOMAIN UpperLetters : {a, b} = {UpperLetters[i], LowerLetters[i]}

\* sub occurs in str when letters are compared up to case
ContainsIgnoringCase(sub, str) ==
    \E k \in 0..(Len(str) - Len(sub)) :
        \A i \in 1..Len(sub) : SameLetter(str[k + i], sub[i])

MatchingEvents ==
    {i \in 1..Len(season) : ContainsIgnoringCase(call.eventName, season[i].name)}

\* C3: getEventIdFromName returns the id of the first event of the season
\* whose name contains eventName up to letter case, and returns None, without
\* raising, when no event matches (the empty season included).
C3_FirstEventMatchingIgnoringCase ==
    call.op = "getEventIdFromName" =>
        IF MatchingEvents = {}
        THEN ret = Ok(None)
        ELSE ret = Ok(season[Min(MatchingEvents)].id)

\* C3 witness: two events with different ids match, the first only up to
\* case, and the first one's id was returned.
C3_Witness ==
    /\ call.op = "getEventIdFromName"
    /\ {1, 2} \subseteq MatchingEvents
    /\ season[1].id # season[2].id
    /\ ~Contains(call.eventName, season[1].name)
    /\ ret = Ok(season[1].id)

MatchingStages ==
    IF call.typ = "code"
    THEN {i \in 1..Len(stages) : stages[i].code = call.sname}
    ELSE {i \in 1..Len(stages) : ContainsIgnoringCase(call.sname, stages[i].name)}

\* C4: getStageId with typ 'code' returns the stageId of the first stage whose
\* code equals sname exactly; with typ 'name' that of the first stage whose
\* name contains sname up to letter case; None, without raising, when no
\* stage matches.
C4_StageIdByCodeOrName ==
    call.op = "getStageId" =>
        IF MatchingStages = {}
        THEN ret = Ok(None)
        ELSE ret = Ok(stages[Min(MatchingStages)].stageId)

\* C4 witness: a lookup by code where the first stage's code differs from sname
\* only in letter case and the second stage's code equals it; the second
\* stage's id was returned.
C4_Witness ==
    /\ call.op = "getStageId" /\ call.typ = "code"
    /\ Len(stages) = 2
    /\ stages[1].code # call.sname
    /\ Lower(stages[1].code) = Lower(call.sname)
    /\ stages[2].code = call.sname
    /\ stages[1].stageId # stages[2].stageId
    /\ ret = Ok(stages[2].stageId)

EntriesWithId == {i \in 1..Len(entries) : entries[i].entryId = call.entryId}

\* C9: getEntryById returns the first entry of the list whose entryId equals
\* the argument and None, not an error, when there is none (the empty list
\* included).
C9_FirstEntryOrNone ==
    call.op = "getEntryById" =>
        IF EntriesWithId = {}
        THEN ret = Ok(None)
        ELSE ret = Ok(entries[Min(EntriesWithId)])

\* C9 witness: two different entries carry the entryId asked for and the
\* first was returned.
C9_Witness ==
    /\ call.op = "getEntryById"
    /\ EntriesWithId = {1, 2}
    /\ entries[1] # entries[2]
    /\ ret = Ok(entries[1])

\* C9 witness of the not-found case: a non-empty list without the entryId
C9_NotFoundWitness ==
    /\ call.op = "getEntryById"
    /\ Len(entries) > 0
    /\ EntriesWithId = {}
    /\ ret = Ok(None)

StagesWithKey == {i \in 1..Len(stages) : stages[i][call.typ] = call.sid}

\* C10: getStageInfo returns None, without raising, when no stage has the
\* field typ equal to sid (the empty list included), and the name and the
\* distance of the first match otherwise.
C10_StageInfoOrNone ==
    call.op = "getStageInfo" =>
        IF StagesWithKey = {}
        THEN ret = Ok(None)
        ELSE LET first == stages[Min(StagesWithKey)] IN
             /\ IsOk(ret)
             /\ ret.val.distance = first.distance
             /\ ret.val.name = IF call.clean THEN RemoveLiveTV(first.name)
                                ELSE first.name

-----------------------------------------------------------------------------
(* Claims about getCarData *)

TopLevelCarKeys ==
    {"entryId", "driverId", "codriverId", "manufacturerId", "vehicleModel",
     "eligibility"}

\* the entry has every top-level and nested field the projection reads
EntryComplete(entry) ==
    /\ TopLevelCarKeys \subseteq DOMAIN entry
    /\ {"eventClasses", "manufacturer", "entrant", "group", "driver", "codriver"}
          \subseteq DOMAIN entry
    /\ Len(entry.eventClasses) > 0
    /\ "name" \in DOMAIN entry.eventClasses[1]
    /\ "name" \in DOMAIN entry.manufacturer
    /\ "name" \in DOMAIN entry.entrant
    /\ "name" \in DOMAIN entry.group
    /\ {"abbvName", "fullName", "code"} \subseteq DOMAIN entry.driver
    /\ {"abbvName", "fullName"} \subseteq DOMAIN entry.codriver

\* the entry has its keys but an empty eventClasses list
EmptyClassList(entry) ==
    /\ TopLevelCarKeys \subseteq DOMAIN entry
    /\ "eventClasses" \in DOMAIN entry
    /\ Len(entry.eventClasses) = 0

IncompleteEntries == {i \in 1..Len(entries) : ~EntryComplete(entries[i])}

\* one projected record per entry, in input order, with the entry's own data
OneRecordPerEntry ==
    /\ IsOk(ret)
    /\ Len(ret.val) = Len(entries)
    /\ \A i \in 1..Len(entries) :
          /\ ret.val[i].entryId = entries[i].entryId
          /\ ret.val[i].driverId = entries[i].driverId
          /\ ret.val[i].classname = entries[i].eventClasses[1].name
          /\ ret.val[i].code = entries[i].driver.code

\* C8 as stated: getCarData returns one projected record per entry when every
\* entry is complete and otherwise fails with a missing-key error, returning
\* no list.
C8_AsStated ==
    call.op = "getCarData" =>
        IF IncompleteEntries = {}
        THEN OneRecordPerEntry
        ELSE ret = Raise("KeyError")

\* C8, amended: getCarData returns one projected record per entry, in input
\* order, when every entry is complete; otherwise it returns no list and
\* raises the error of the first incomplete entry: an index error when that
\* entry has its top-level keys and an empty eventClasses list, a missing-key
\* error in every other case.
C8_FailFastNeverDrops ==
    call.op = "getCarData" =>
        IF IncompleteEntries = {}
        THEN OneRecordPerEntry
        ELSE ret = Raise(IF EmptyClassList(entries[Min(IncompleteEntries)])
                         THEN "IndexError" ELSE "KeyError")

\* C8 witness: a complete entry followed by one that lacks a nested field;
\* the call raised and returned nothing.
C8_Witness ==
    /\ call.op = "getCarData"
    /\ Len(entries) = 2
    /\ EntryComplete(entries[1])
    /\ ~EntryComplete(entries[2])
    /\ "driver" \in DOMAIN entries[2] /\ "code" \notin DOMAIN entries[2].driver
    /\ ret = Raise("KeyError")

-----------------------------------------------------------------------------
(* Claims about the itinerary *)

\* the positions <<leg, section>> of the sections of an itinerary
SectionPositions(itin) ==
    UNION { { <<l, j>> : j \in 1..Len(itin[l].itinerarySections) } :
            l \in 1..Len(itin) }

SectionAt(itin, p) == itin[p[1]].itinerarySections[p[2]]

DistinctSectionIds(itin) ==
    \A p, q \in SectionPositions(itin) :
        p # q => SectionAt(itin, p).itinerarySectionId
                    # SectionAt(itin, q).itinerarySectionId

RECURSIVE SumOver(_, _)
SumOver(S, f) ==
    IF S = {} THEN 0
    ELSE LET x == CHOOSE y \in S : TRUE IN f[x] + SumOver(S \ {x}, f)

\* the flattened records that carry the section id sid, without that id
GroupOf(list, sid) ==
    LET grp == SelectSeq(list, LAMBDA r : r.itinerarySectionId = sid)
    IN  [k \in 1..Len(grp) |-> DelKey(grp[k], "itinerarySectionId")]

\* C5: for an itinerary whose sections have pairwise distinct ids, the list
\* getStages(getSections(itinerary)) restricted to the records carrying a
\* section's id is that section's stages as fetched, in their order, for every
\* section, and likewise getControls for controls; the length of the list is
\* the sum of the sections' counts.
C5_FlattenRoundTrip ==
    (call.op \in {"getStages", "getControls"} /\ DistinctSectionIds(itinerary0)) =>
        LET key == IF call.op = "getStages" THEN "stages" ELSE "controls"
            P == SectionPositions(itinerary0)
        IN  /\ IsOk(ret)
            /\ \A p \in P :
                  GroupOf(ret.val, SectionAt(itinerary0, p).itinerarySectionId)
                      = SectionAt(itinerary0, p)[key]
            /\ Len(ret.val)
                  = SumOver(P, [p \in P |-> Len(SectionAt(itinerary0, p)[key])])

\* C5 witness: two legs, three sections with distinct ids of which two hold
\* stages, and getStages returned their four stages.
C5_Witness ==
    /\ call.op = "getStages"
    /\ DistinctSectionIds(itinerary0)
    /\ Len(itinerary0) = 2
    /\ Cardinality(SectionPositions(itinerary0)) = 3
    /\ IsOk(ret)
    /\ Len(ret.val) = 4
    /\ ret.val[1].itinerarySectionId # ret.val[3].itinerarySectionId

SectionsWithId ==
    { p \in SectionPositions(itinerary) :
        SectionAt(itinerary, p).itinerarySectionId = call.itinerarySectionId }

LegsWithId(lid) == {k \in 1..Len(itinerary) : itinerary[k].itineraryLegId = lid}

\* C6: when some section has the given itinerarySectionId, getStartListId
\* returns the startListId of the leg whose itineraryLegId equals that
\* section's itineraryLegId, whatever value the leg id has (0 included); it
\* returns None only when no section has the id or no leg carries the
\* section's leg id.
C6_StartListOfOwningLeg ==
    call.op = "getStartListId" =>
        IF SectionsWithId = {}
        THEN ret = Ok(None)
        ELSE \E p \in SectionsWithId :
                LET L == LegsWithId(SectionAt(itinerary, p).itineraryLegId) IN
                IF L = {} THEN ret = Ok(None)
                ELSE ret = Ok(itinerary[Min(L)].startListId)

-----------------------------------------------------------------------------
(* Claims about the multi-stage fetches *)

RECURSIVE ConcatAll(_)
ConcatAll(lists) ==
    IF Len(lists) = 0 THEN <<>> ELSE Head(lists) \o ConcatAll(Tail(lists))

\* the split records of a split-times body, entry by entry, in seconds
SplitRecordsOf(body) ==
    ConcatAll([e \in 1..Len(body.entrySplitPointTimes) |->
        LET spt == body.entrySplitPointTimes[e].splitPointTimes IN
        [k \in 1..Len(spt) |->
            [splitPointId |-> spt[k].splitPointId,
             entryId |-> spt[k].entryId,
             elapsedDurationS |-> Div1000(spt[k].elapsedDurationMs)]]])

\* the record list of the k-th stage fetched, from the body its GET gave
PerStageRecords(k) ==
    LET body == requests[k].body IN
    CASE call.op = "getMultipleStageTimes" -> body
      [] call.op = "getMultipleOverall" ->
            [i \in 1..Len(body) |-> [stageId |-> requests[k].stage] @@ body[i]]
      [] call.op = "getMultiSplitTimes" -> SplitRecordsOf(body)

\* C7: a multi-stage fetch issues its GETs one per element of stageList, in
\* list order; a GET that fails is the last one issued, and the call then
\* raises that error and returns nothing; a call that returns has issued a
\* GET for every element and returns the concatenation of the per-stage
\* record lists in stageList order.
C7_FetchInOrderAllOrNothing ==
    pc # "idle" =>
        /\ Len(requests) <= Len(stageList)
        /\ \A k \in 1..Len(requests) : requests[k].stage = stageList[k]
        /\ \A k \in 1..Len(requests) :
              ~requests[k].ok =>
                  /\ k = Len(requests)
                  /\ pc = "failed"
                  /\ ret = Raise(requests[k].err)
        /\ pc = "failed" =>
              /\ Len(requests) >= 1
              /\ ~requests[Len(requests)].ok
              /\ "val" \notin DOMAIN ret
        /\ pc = "fetch" => ret = NoRet
        /\ pc = "done" =>
              /\ Len(requests) = Len(stageList)
              /\ \A k \in 1..Len(requests) : requests[k].ok
              /\ ret = Ok(ConcatAll([k \in 1..Len(requests) |-> PerStageRecords(k)]))

\* C7 witness: of three stages the first was fetched and gave records, the
\* GET for the second failed, and the call raised with the third never
\* requested.
C7_Witness ==
    /\ pc = "failed"
    /\ call.op = "getMultiSplitTimes"
    /\ Len(stageList) = 3
    /\ Len(requests) = 2
    /\ requests[1].ok
    /\ Len(final) > 0
    /\ ~requests[2].ok
    /\ ret = Raise(requests[2].err)

\* C7 witness of a call that returned: two different stages, both giving
\* records, concatenated in stageList order
C7_DoneWitness ==
    /\ pc = "done"
    /\ call.op = "getMultipleOverall"
    /\ stageList = <<11, 10>>
    /\ IsOk(ret)
    /\ Len(ret.val) = 3
    /\ ret.val[1].stageId = 11
    /\ ret.val[3].stageId = 10

-----------------------------------------------------------------------------
(* Claims about the split extractions *)

SplitOps == {"getDriverSplits", "getDriverSplitsWide"}

\* what the call op returns when it is the first one made on the payload
FirstCallResult(op, payload) ==
    IF op = "getDriverSplits" THEN getDriverSplits(payload)
    ELSE getDriverSplitsWide(payload)

\* C11: getDriverSplits and getDriverSplitsWide leave the payload handed to
\* them as it was, so after any sequence of these calls on one payload (whose
\* durations are all numbers, so that a first call succeeds) the payload is
\* still the fetched one, and the last call succeeded and returned what it
\* returns as a first call.
C11_SplitExtractionIsPure ==
    (call.op \in SplitOps /\ IsOk(getDriverSplits(splitTimes0))) =>
        /\ splitTimes = splitTimes0
        /\ IsOk(ret)
        /\ ret = FirstCallResult(call.op, splitTimes0)

=============================================================================
